---------------------------- MODULE Spec2Model ----------------------------
(***************************************************************************)
(* Model of rust-gamedig's master-server search filters                    *)
(* (src/services/valve_master_server/types.rs) and of the game query       *)
(* dispatcher (src/games/mod.rs).                                          *)
(*                                                                         *)
(* Byte strings are sequences of byte values (ASCII codes).  A HashMap is  *)
(* a set of [key, value] entries; its iteration order is not specified by  *)
(* the library, so every iteration picks an arbitrary order.               *)
(***************************************************************************)
EXTENDS Integers, Sequences, FiniteSets, Bags, TLC

VARIABLES
    sf,        \* the SearchFilters value the builder chain currently holds
    prev,      \* the receiver of the last builder call (consumed by it)
    log,       \* the builder calls made since SearchFilters::new()
    encoded,   \* result of the last SearchFilters::to_bytes() on sf
    frag,      \* result of the last Filter::to_bytes() call
    call,      \* arguments of the last dispatcher call
    invoked,   \* codec invocations made by the last dispatcher call
    codecResult, \* what the invoked codec returned to the dispatcher
    ret        \* value returned by the last dispatcher call

vars == <<sf, prev, log, encoded, frag, call, invoked, codecResult, ret>>

----------------------------------------------------------------------------
(* Bounds *)

\* number of builder calls in one chain
MaxOps == 2
\* length of the tag list of a HasTags filter given to Filter::to_bytes
MaxTags == 3

----------------------------------------------------------------------------
(* Filter *)

Kinds ==
    {"IsSecured", "RunsMap", "CanHavePassword", "CanBeEmpty", "IsEmpty",
     "CanBeFull", "RunsAppID", "NotAppID", "HasTags", "MatchName",
     "MatchVersion", "RestrictUniqueIP", "OnAddress", "Whitelisted",
     "SpectatorProxy", "IsDedicated", "RunsLinux", "HasGameDir"}

BoolKinds ==
    {"IsSecured", "CanHavePassword", "CanBeEmpty", "IsEmpty", "CanBeFull",
     "RestrictUniqueIP", "Whitelisted", "SpectatorProxy", "IsDedicated",
     "RunsLinux"}

StrKinds == {"RunsMap", "MatchName", "MatchVersion", "OnAddress", "HasGameDir"}

IntKinds == {"RunsAppID", "NotAppID"}

\* A Filter value: the variant tag and its payload (one payload field per
\* payload type; the fields the variant does not carry stay at a default).
BoolFilter(kind, b) == [kind |-> kind, b |-> b, n |-> 0, s |-> <<>>, tags |-> <<>>]
StrFilter(kind, s) == [kind |-> kind, b |-> FALSE, n |-> 0, s |-> s, tags |-> <<>>]
IntFilter(kind, n) == [kind |-> kind, b |-> FALSE, n |-> n, s |-> <<>>, tags |-> <<>>]
HasTags(tags) == [kind |-> "HasTags", b |-> FALSE, n |-> 0, s |-> <<>>, tags |-> tags]
IsSecured(b) == BoolFilter("IsSecured", b)
CanBeFull(b) == BoolFilter("CanBeFull", b)

\* std::mem::discriminant(&filter)
Discriminant(filter) == filter.kind

bool_as_char_u8_raw(b) == IF b THEN 1 ELSE 0

bool_as_char_u8(b) == IF b THEN 49 ELSE 48

\* u32 / usize to_string(): decimal ASCII digits
RECURSIVE to_string(_)
to_string(n) ==
    IF n < 10 THEN <<48 + n>> ELSE to_string(n \div 10) \o <<48 + (n % 10)>>

\* the "\\<key>\\" literal each match arm of Filter::to_bytes starts with
KeyLiteral(kind) ==
    CASE kind = "IsSecured" -> <<92, 115, 101, 99, 117, 114, 101, 92>>  \* "\\secure\\"
      [] kind = "RunsMap" -> <<92, 109, 97, 112, 92>>  \* "\\map\\"
      [] kind = "CanHavePassword" -> <<92, 112, 97, 115, 115, 119, 111, 114, 100, 92>>  \* "\\password\\"
      [] kind = "CanBeEmpty" -> <<92, 101, 109, 112, 116, 121, 92>>  \* "\\empty\\"
      [] kind = "CanBeFull" -> <<92, 102, 117, 108, 108, 92>>  \* "\\full\\"
      [] kind = "RunsAppID" -> <<92, 97, 112, 112, 105, 100, 92>>  \* "\\appid\\"
      [] kind = "HasTags" -> <<92, 103, 97, 109, 101, 116, 121, 112, 101, 92>>  \* "\\gametype\\"
      [] kind = "NotAppID" -> <<92, 110, 97, 112, 112, 92>>  \* "\\napp\\"
      [] kind = "IsEmpty" -> <<92, 110, 111, 112, 108, 97, 121, 101, 114, 115, 92>>  \* "\\noplayers\\"
      [] kind = "MatchName" -> <<92, 110, 97, 109, 101, 95, 109, 97, 116, 99, 104, 92>>  \* "\\name_match\\"
      [] kind = "MatchVersion" -> <<92, 118, 101, 114, 115, 105, 111, 110, 95, 109, 97, 116, 99, 104, 92>>  \* "\\version_match\\"
      [] kind = "RestrictUniqueIP" -> <<92, 99, 111, 108, 108, 97, 112, 115, 101, 95, 97, 100, 100, 114, 95, 104, 97, 115, 104, 92>>  \* "\\collapse_addr_hash\\"
      [] kind = "OnAddress" -> <<92, 103, 97, 109, 101, 97, 100, 100, 114, 92>>  \* "\\gameaddr\\"
      [] kind = "Whitelisted" -> <<92, 119, 104, 105, 116, 101, 92>>  \* "\\white\\"
      [] kind = "SpectatorProxy" -> <<92, 112, 114, 111, 120, 121, 92>>  \* "\\proxy\\"
      [] kind = "IsDedicated" -> <<92, 100, 101, 100, 105, 99, 97, 116, 101, 100, 92>>  \* "\\dedicated\\"
      [] kind = "RunsLinux" -> <<92, 108, 105, 110, 117, 120, 92>>  \* "\\linux\\"
      [] kind = "HasGameDir" -> <<92, 103, 97, 109, 101, 100, 105, 114, 92>>  \* "\\gamedir\\"

\* for tag in tags.iter() { bytes.extend(tag.as_bytes()); bytes.extend([b',']) }
RECURSIVE ExtendTags(_, _)
ExtendTags(bytes, tags) ==
    IF tags = <<>> THEN bytes
    ELSE ExtendTags(bytes \o Head(tags) \o <<44>>, Tail(tags))

\* bytes.pop()
Pop(bytes) == SubSeq(bytes, 1, Len(bytes) - 1)

HasTagsToBytes_no_pop(tags) ==
    IF tags # <<>> THEN ExtendTags(KeyLiteral("HasTags"), tags) ELSE <<>>

\* the Filter::HasTags arm of Filter::to_bytes
HasTagsToBytes(tags) ==
    IF tags # <<>> THEN Pop(ExtendTags(KeyLiteral("HasTags"), tags)) ELSE <<>>

\* Filter::to_bytes
Filter_to_bytes(filter) ==
    CASE filter.kind \in BoolKinds ->
            KeyLiteral(filter.kind) \o <<bool_as_char_u8(filter.b)>>
      [] filter.kind \in StrKinds -> KeyLiteral(filter.kind) \o filter.s
      [] filter.kind \in IntKinds -> KeyLiteral(filter.kind) \o to_string(filter.n)
      [] filter.kind = "HasTags" -> HasTagsToBytes(filter.tags)

----------------------------------------------------------------------------
(* SearchFilters *)

\* HashMap::insert(key, value): the entry of that key is replaced
HashMap_insert(map, key, value) ==
    {e \in map : e.key # key} \cup {[key |-> key, value |-> value]}

\* for (filter_key, filter_value) in &others { updated.insert(*filter_key, *filter_value) }
RECURSIVE InsertEach(_, _)
InsertEach(updated, entries) ==
    IF entries = {} THEN updated
    ELSE LET e == CHOOSE x \in entries : TRUE
         IN  InsertEach(HashMap_insert(updated, e.key, e.value), entries \ {e})

\* SearchFilters::new()
new == [filters |-> {}, nor_filters |-> {}, nand_filters |-> {}]

merge_normals_left_biased(self, others) ==
    [filters |-> InsertEach(others.filters, self.filters),
     nand_filters |-> self.nand_filters,
     nor_filters |-> self.nor_filters]

merge_normals(self, others) ==
    [filters |-> InsertEach(self.filters, others.filters),
     nand_filters |-> self.nand_filters,
     nor_filters |-> self.nor_filters]

insert_no_replace(self, filter) ==
    [filters |-> self.filters \cup {[key |-> Discriminant(filter), value |-> filter]},
     nand_filters |-> self.nand_filters,
     nor_filters |-> self.nor_filters]

insert(self, filter) ==
    [filters |-> HashMap_insert(self.filters, Discriminant(filter), filter),
     nand_filters |-> self.nand_filters,
     nor_filters |-> self.nor_filters]

merge_nands(self, others) ==
    [filters |-> self.filters,
     nand_filters |-> InsertEach(self.nand_filters, others.nand_filters),
     nor_filters |-> self.nor_filters]

\* insert_nand updates self.nor_filters (types.rs:205, 211)
insert_nand(self, filter) ==
    [filters |-> self.filters,
     nand_filters |-> self.nand_filters,
     nor_filters |-> HashMap_insert(self.nor_filters, Discriminant(filter), filter)]

merge_nors(self, others) ==
    [filters |-> self.filters,
     nand_filters |-> self.nand_filters,
     nor_filters |-> InsertEach(self.nor_filters, others.nor_filters)]

\* insert_nor updates self.nand_filters (types.rs:230, 235)
insert_nor(self, filter) ==
    [filters |-> self.filters,
     nand_filters |-> HashMap_insert(self.nand_filters, Discriminant(filter), filter),
     nor_filters |-> self.nor_filters]

merge_all(self, others) ==
    merge_nands(merge_nors(merge_normals(self, others), others), others)

\* the orders in which HashMap::values() may yield the values of a map
RECURSIVE Orders(_)
Orders(map) ==
    IF map = {} THEN {<<>>}
    ELSE UNION {{<<e.value>> \o rest : rest \in Orders(map \ {e})} : e \in map}

\* for filter in values { bytes.extend(filter.to_bytes()) }
RECURSIVE ExtendFilters(_, _)
ExtendFilters(bytes, values) ==
    IF values = <<>> THEN bytes
    ELSE ExtendFilters(bytes \o Filter_to_bytes(Head(values)), Tail(values))

\* SearchFilters::special_filter_to_bytes; values is filters.values()
special_filter_to_bytes(name, filters, values) ==
    IF filters # {}
    THEN ExtendFilters(name \o to_string(Cardinality(filters)), values)
    ELSE <<>>

NandName == <<110, 97, 110, 100>>  \* "nand"
NorName == <<110, 111, 114>>       \* "nor"

to_bytes_nor_else(self, values, nandValues, norValues) ==
    ExtendFilters(<<>>, values)
        \o (IF self.nand_filters # {}
            THEN special_filter_to_bytes(NandName, self.nand_filters, nandValues)
            ELSE special_filter_to_bytes(NorName, self.nor_filters, norValues))
        \o <<0>>

to_bytes_no_terminator(self, values, nandValues, norValues) ==
    ExtendFilters(<<>>, values)
        \o special_filter_to_bytes(NandName, self.nand_filters, nandValues)
        \o special_filter_to_bytes(NorName, self.nor_filters, norValues)

to_bytes_skip_first(self, values, nandValues, norValues) ==
    ExtendFilters(<<>>, IF values = <<>> THEN values ELSE Tail(values))
        \o special_filter_to_bytes(NandName, self.nand_filters, nandValues)
        \o special_filter_to_bytes(NorName, self.nor_filters, norValues)
        \o <<0>>

\* SearchFilters::to_bytes; values, nandValues, norValues are the orders in
\* which the three maps are iterated
to_bytes(self, values, nandValues, norValues) ==
    ExtendFilters(<<>>, values)
        \o special_filter_to_bytes(NandName, self.nand_filters, nandValues)
        \o special_filter_to_bytes(NorName, self.nor_filters, norValues)
        \o <<0>>

----------------------------------------------------------------------------
(* Inputs of the builder chain *)

TagA == <<97>>   \* "a"
TagB == <<98>>   \* "b"

\* the filters handed to insert / insert_nand / insert_nor
FilterInputs ==
    {IsSecured(TRUE), IsSecured(FALSE), CanBeFull(TRUE),
     HasTags(<<>>), HasTags(<<TagA, TagB>>), IntFilter("RunsAppID", 440)}

\* the SearchFilters values handed to the merge_* calls, each built from new()
OtherInputs ==
    {insert(insert(new, CanBeFull(TRUE)), IsSecured(FALSE)),
     insert_nor(insert_nand(insert(new, HasTags(<<TagA>>)), IsSecured(TRUE)),
                CanBeFull(FALSE))}

NoFilter == [kind |-> "None", b |-> FALSE, n |-> 0, s |-> <<>>, tags |-> <<>>]

NotEncoded ==
    [valid |-> FALSE, bytes |-> <<>>,
     values |-> <<>>, nandValues |-> <<>>, norValues |-> <<>>]

NoFrag == [valid |-> FALSE, filter |-> NoFilter, bytes |-> <<>>]

NoCall == [made |-> FALSE, entry |-> ""]

NoRet == [returned |-> FALSE]

Init ==
    /\ sf = new
    /\ prev = new
    /\ log = <<>>
    /\ encoded = NotEncoded
    /\ frag = NoFrag
    /\ call = NoCall
    /\ invoked = <<>>
    /\ codecResult = NoRet
    /\ ret = NoRet

----------------------------------------------------------------------------
(* Builder calls: each consumes sf and yields the updated value *)

Chain(op, filter, others, result) ==
    /\ Len(log) < MaxOps
    /\ sf' = result
    /\ prev' = sf
    /\ log' = Append(log, [op |-> op, filter |-> filter, others |-> others])
    /\ encoded' = NotEncoded
    /\ UNCHANGED <<frag, call, invoked, codecResult, ret>>

Insert == \E f \in FilterInputs : Chain("insert", f, new, insert(sf, f))

InsertNand == \E f \in FilterInputs : Chain("insert_nand", f, new, insert_nand(sf, f))

InsertNor == \E f \in FilterInputs : Chain("insert_nor", f, new, insert_nor(sf, f))

MergeNormals ==
    \E o \in OtherInputs : Chain("merge_normals", NoFilter, o, merge_normals(sf, o))

MergeNands ==
    \E o \in OtherInputs : Chain("merge_nands", NoFilter, o, merge_nands(sf, o))

MergeNors ==
    \E o \in OtherInputs : Chain("merge_nors", NoFilter, o, merge_nors(sf, o))

MergeAll ==
    \E o \in OtherInputs : Chain("merge_all", NoFilter, o, merge_all(sf, o))

\* sf.to_bytes(): borrows sf; the three maps are iterated in arbitrary order
ToBytes ==
    /\ \E values \in Orders(sf.filters),
          nandValues \in Orders(sf.nand_filters),
          norValues \in Orders(sf.nor_filters) :
            encoded' = [valid |-> TRUE,
                        bytes |-> to_bytes(sf, values, nandValues, norValues),
                        values |-> values,
                        nandValues |-> nandValues,
                        norValues |-> norValues]
    /\ UNCHANGED <<sf, prev, log, frag, call, invoked, codecResult, ret>>

Next ==
    \/ Insert
    \/ InsertNand
    \/ InsertNor
    \/ MergeNormals
    \/ MergeNands
    \/ MergeNors
    \/ MergeAll
    \/ ToBytes

Spec == Init /\ [][Next]_vars

----------------------------------------------------------------------------
(* Filter::to_bytes as a function of its argument *)

TagC == <<99, 115>>   \* "cs"

TagInputs == {TagA, TagB, TagC, <<>>}

StrInputs == {<<>>, TagA, TagC}

\* u32 payloads; 2147483647 is the largest integer TLC evaluates
IntInputs == {0, 9, 10, 440, 2147483647}

SeqsUpTo(S, n) == UNION {[1..k -> S] : k \in 0..n}

EncodeInputs ==
    {BoolFilter(k, b) : k \in BoolKinds, b \in BOOLEAN}
        \cup {StrFilter(k, s) : k \in StrKinds, s \in StrInputs}
        \cup {IntFilter(k, n) : k \in IntKinds, n \in IntInputs}
        \cup {HasTags(t) : t \in SeqsUpTo(TagInputs, MaxTags)}

EncodeFilter ==
    /\ \E f \in EncodeInputs :
         frag' = [valid |-> TRUE, filter |-> f, bytes |-> Filter_to_bytes(f)]
    /\ UNCHANGED <<sf, prev, log, encoded, call, invoked, codecResult, ret>>

NextEncode == EncodeFilter

SpecEncode == Init /\ [][NextEncode]_vars

----------------------------------------------------------------------------
(* Query dispatcher (games/mod.rs) *)

\* Option<T>: None carries a default of T's type
None16 == [some |-> FALSE, v |-> 0]
Some16(p) == [some |-> TRUE, v |-> p]
NoneS == [some |-> FALSE, v |-> ""]
SomeS(x) == [some |-> TRUE, v |-> x]

\* Option::unwrap_or
unwrap_or(opt, default) == IF opt.some THEN opt.v ELSE default

\* Option::map(ExtraRequestSettings::into)
map_into(opt) == IF opt.some THEN SomeS("into(" \o opt.v \o ")") ELSE NoneS

\* Protocol: family, sub-variant and (for Minecraft Legacy) the group
Protocol(family, variant, group) ==
    [family |-> family, variant |-> variant, group |-> group]

Protocols ==
    {Protocol("Valve", app, "") : app \in {"TF2", "CSGO"}}
        \cup {Protocol("Minecraft", v, "") : v \in {"None", "Java", "Bedrock"}}
        \cup {Protocol("Minecraft", "Legacy", g) : g \in {"V1_4", "V1_6"}}
        \cup {Protocol("Gamespy", v, "") : v \in {"One", "Two", "Three"}}
        \cup {Protocol("Quake", v, "") : v \in {"One", "Two", "Three"}}
        \cup {Protocol("PROPRIETARY", v, "") : v \in {"TheShip", "FFOW", "JC2MP"}}

\* Game { name, default_port, protocol }
Games ==
    {[name |-> "game", default_port |-> d, protocol |-> p] :
        d \in {27015, 25565}, p \in Protocols}

AddressInputs == {"127.0.0.1", "10.0.0.7"}
PortInputs == {None16, Some16(27016)}
TimeoutInputs == {NoneS, SomeS("timeouts")}
ExtraInputs == {NoneS, SomeS("extra")}
ErrorKinds == {"SocketConnect", "PacketReceive"}

\* SocketAddr::new(ip, port)
SocketAddr_new(ip, port) ==
    [resolved |-> TRUE, ip |-> ip, port |-> port, opt_port |-> None16]

\* the (address, port) pair as the caller gave it
AddressPort(address, port) ==
    [resolved |-> FALSE, ip |-> address, port |-> 0, opt_port |-> port]

\* one call of a protocol codec with its arguments; extra.passed tells whether
\* the codec takes extra settings at all
Invoke(codec, target, param, timeout, passed, extra) ==
    [codec |-> codec, target |-> target, param |-> param, timeout |-> timeout,
     extra |-> [passed |-> passed, opt |-> extra]]

MinecraftArm_none_as_java(version, group, socket_addr, timeout, extra) ==
    CASE version \in {"Java", "None"} ->
            <<Invoke("minecraft::query_java", socket_addr, "", timeout, TRUE, map_into(extra))>>
      [] version = "Bedrock" ->
            <<Invoke("minecraft::query_bedrock", socket_addr, "", timeout, FALSE, NoneS)>>
      [] version = "Legacy" ->
            <<Invoke("minecraft::query_legacy_specific", socket_addr, group, timeout, FALSE, NoneS)>>

\* the Protocol::Minecraft(version) arm
MinecraftArm(version, group, socket_addr, timeout, extra) ==
    CASE version = "Java" ->
            <<Invoke("minecraft::query_java", socket_addr, "", timeout, TRUE, map_into(extra))>>
      [] version = "Bedrock" ->
            <<Invoke("minecraft::query_bedrock", socket_addr, "", timeout, FALSE, NoneS)>>
      [] version = "Legacy" ->
            <<Invoke("minecraft::query_legacy_specific", socket_addr, group, timeout, FALSE, NoneS)>>
      [] version = "None" ->
            <<Invoke("minecraft::query", socket_addr, "", timeout, TRUE, map_into(extra))>>

\* the Protocol::Gamespy(version) arm
GamespyArm(version, socket_addr, timeout) ==
    CASE version = "One" ->
            <<Invoke("gamespy::one::query", socket_addr, "", timeout, FALSE, NoneS)>>
      [] version = "Two" ->
            <<Invoke("gamespy::two::query", socket_addr, "", timeout, FALSE, NoneS)>>
      [] version = "Three" ->
            <<Invoke("gamespy::three::query", socket_addr, "", timeout, FALSE, NoneS)>>

\* the Protocol::Quake(version) arm
QuakeArm(version, socket_addr, timeout) ==
    CASE version = "One" ->
            <<Invoke("quake::one::query", socket_addr, "", timeout, FALSE, NoneS)>>
      [] version = "Two" ->
            <<Invoke("quake::two::query", socket_addr, "", timeout, FALSE, NoneS)>>
      [] version = "Three" ->
            <<Invoke("quake::three::query", socket_addr, "", timeout, FALSE, NoneS)>>

\* the Protocol::PROPRIETARY(protocol) arm
ProprietaryArm(protocol, address, port, timeout) ==
    CASE protocol = "TheShip" ->
            <<Invoke("ship::query_with_timeout", AddressPort(address, port), "", timeout, FALSE, NoneS)>>
      [] protocol = "FFOW" ->
            <<Invoke("ffow::query_with_timeout", AddressPort(address, port), "", timeout, FALSE, NoneS)>>
      [] protocol = "JC2MP" ->
            <<Invoke("jc2mp::query_with_timeout", AddressPort(address, port), "", timeout, FALSE, NoneS)>>

ResolveSocketAddr_ignore_port(game, address, port) ==
    SocketAddr_new(address, game.default_port)

\* let socket_addr = SocketAddr::new(*address, port.unwrap_or(game.default_port))
ResolveSocketAddr(game, address, port) ==
    SocketAddr_new(address, unwrap_or(port, game.default_port))

\* match &game.protocol { ... }: the codec calls the selected arm makes
Dispatch(game, address, port, timeout, extra) ==
    LET socket_addr == ResolveSocketAddr(game, address, port)
        protocol == game.protocol
    IN  CASE protocol.family = "Valve" ->
                <<Invoke("valve::query", socket_addr,
                         "as_engine(" \o protocol.variant \o ")",
                         timeout, TRUE, map_into(extra))>>
          [] protocol.family = "Minecraft" ->
                MinecraftArm(protocol.variant, protocol.group, socket_addr, timeout, extra)
          [] protocol.family = "Gamespy" ->
                GamespyArm(protocol.variant, socket_addr, timeout)
          [] protocol.family = "Quake" ->
                QuakeArm(protocol.variant, socket_addr, timeout)
          [] protocol.family = "PROPRIETARY" ->
                ProprietaryArm(protocol.variant, address, port, timeout)

\* what a codec may return: Ok(response) or Err(error)
CodecOutcomes(codec) ==
    {[ok |-> TRUE, response |-> "response of " \o codec, error |-> ""]}
        \cup {[ok |-> FALSE, response |-> "", error |-> e] : e \in ErrorKinds}

Returned_error_wrapped(outcome) ==
    IF outcome.ok
    THEN [returned |-> TRUE, ok |-> TRUE, boxed |-> outcome.response, error |-> ""]
    ELSE [returned |-> TRUE, ok |-> FALSE, boxed |-> "", error |-> "AutoQuery"]

\* Ok(codec(..).map(Box::new)?): Err(e) returns Err(e), Ok(r) gives Ok(Box::new(r))
Returned(outcome) ==
    IF outcome.ok
    THEN [returned |-> TRUE, ok |-> TRUE, boxed |-> outcome.response, error |-> ""]
    ELSE [returned |-> TRUE, ok |-> FALSE, boxed |-> "", error |-> outcome.error]

\* the arguments of a call of one of the three entry points
CallArgs(entry, game, address, port, timeout, extra) ==
    [made |-> TRUE, entry |-> entry, game |-> game, address |-> address,
     port |-> port, timeout |-> timeout, extra |-> extra]

CallInputs ==
    {CallArgs("query", game, address, port, NoneS, NoneS) :
        game \in Games, address \in AddressInputs, port \in PortInputs}
    \cup
    {CallArgs("query_with_timeout", game, address, port, timeout, NoneS) :
        game \in Games, address \in AddressInputs, port \in PortInputs,
        timeout \in TimeoutInputs}
    \cup
    {CallArgs("query_with_timeout_and_extra_settings",
              game, address, port, timeout, extra) :
        game \in Games, address \in AddressInputs, port \in PortInputs,
        timeout \in TimeoutInputs, extra \in ExtraInputs}

\* the body of query_with_timeout_and_extra_settings: the selected arm calls
\* its codec, the codec returns, and the call returns
Dispatcher(game, address, port, timeout, extra) ==
    LET invocations == Dispatch(game, address, port, timeout, extra)
    IN  /\ ~ret.returned
        /\ invoked' = invocations
        /\ \E outcome \in CodecOutcomes(invocations[Len(invocations)].codec) :
             /\ ret' = Returned(outcome)
             /\ codecResult' = outcome
        /\ UNCHANGED <<sf, prev, log, encoded, frag, call>>

\* games::query
Query ==
    /\ call.entry = "query"
    /\ Dispatcher(call.game, call.address, call.port, NoneS, NoneS)

\* games::query_with_timeout
QueryWithTimeout ==
    /\ call.entry = "query_with_timeout"
    /\ Dispatcher(call.game, call.address, call.port, call.timeout, NoneS)

\* games::query_with_timeout_and_extra_settings
QueryWithTimeoutAndExtraSettings ==
    /\ call.entry = "query_with_timeout_and_extra_settings"
    /\ Dispatcher(call.game, call.address, call.port, call.timeout, call.extra)

NextDispatch ==
    \/ Query
    \/ QueryWithTimeout
    \/ QueryWithTimeoutAndExtraSettings

\* a caller is about to make one call with arguments drawn from CallInputs
InitDispatch ==
    /\ sf = new
    /\ prev = new
    /\ log = <<>>
    /\ encoded = NotEncoded
    /\ frag = NoFrag
    /\ call \in CallInputs
    /\ invoked = <<>>
    /\ codecResult = NoRet
    /\ ret = NoRet

SpecDispatch == InitDispatch /\ [][NextDispatch]_vars

----------------------------------------------------------------------------
(* Vocabulary of the properties *)

Last(seq) == seq[Len(seq)]

\* the filters a map holds under one kind
Lookup(map, kind) == {e.value : e \in {x \in map : x.key = kind}}

AtMostOnePerKind(map) == \A k \in Kinds : Cardinality(Lookup(map, k)) <= 1

\* merged holds other's filter of a kind when other has one, else self's
RightBiased(self, other, merged) ==
    \A k \in Kinds :
        Lookup(merged, k) =
            IF Lookup(other, k) # {} THEN Lookup(other, k) ELSE Lookup(self, k)

\* lit occurs in bytes at position i
OccursAt(bytes, lit, i) ==
    /\ i >= 1
    /\ i + Len(lit) - 1 <= Len(bytes)
    /\ SubSeq(bytes, i, i + Len(lit) - 1) = lit

Contains(bytes, lit) == \E i \in 1..Len(bytes) : OccursAt(bytes, lit, i)

\* position of the first occurrence of lit in bytes, 0 when there is none
IndexOf(bytes, lit) ==
    IF Contains(bytes, lit)
    THEN CHOOSE i \in 1..Len(bytes) :
            /\ OccursAt(bytes, lit, i)
            /\ \A j \in 1..(i - 1) : ~OccursAt(bytes, lit, j)
    ELSE 0

\* total length of the fragments of the filters of a map
RECURSIVE FragLen(_)
FragLen(map) ==
    IF map = {} THEN 0
    ELSE LET e == CHOOSE x \in map : TRUE
         IN  Len(Filter_to_bytes(e.value)) + FragLen(map \ {e})

\* length of the "<name><count><fragments>" section of a group
SectionLen(name, map) ==
    IF map = {} THEN 0
    ELSE Len(name) + Len(to_string(Cardinality(map))) + FragLen(map)

\* the fragments of a sequence of filters, as a bag
RECURSIVE FragBagOfSeq(_)
FragBagOfSeq(values) ==
    IF values = <<>> THEN EmptyBag
    ELSE SetToBag({Filter_to_bytes(Head(values))}) (+) FragBagOfSeq(Tail(values))

\* the fragments of the filters a map holds, as a bag
RECURSIVE FragBagOfMap(_)
FragBagOfMap(map) ==
    IF map = {} THEN EmptyBag
    ELSE LET e == CHOOSE x \in map : TRUE
         IN  SetToBag({Filter_to_bytes(e.value)}) (+) FragBagOfMap(map \ {e})

\* tags joined by single commas
RECURSIVE Join(_)
Join(tags) ==
    IF Len(tags) = 1 THEN tags[1] ELSE tags[1] \o <<44>> \o Join(Tail(tags))

RECURSIVE SumLen(_)
SumLen(tags) == IF tags = <<>> THEN 0 ELSE Len(Head(tags)) + SumLen(Tail(tags))

\* the value a chain of builder calls yields when made on self
ApplyOp(self, o) ==
    CASE o.op = "insert" -> insert(self, o.filter)
      [] o.op = "insert_nand" -> insert_nand(self, o.filter)
      [] o.op = "insert_nor" -> insert_nor(self, o.filter)
      [] o.op = "merge_normals" -> merge_normals(self, o.others)
      [] o.op = "merge_nands" -> merge_nands(self, o.others)
      [] o.op = "merge_nors" -> merge_nors(self, o.others)
      [] o.op = "merge_all" -> merge_all(self, o.others)

RECURSIVE Replay(_, _)
Replay(self, ops) ==
    IF ops = <<>> THEN self ELSE Replay(ApplyOp(self, Head(ops)), Tail(ops))

\* the reorderings of a sequence of calls
Reorderings(ops) ==
    {[i \in 1..Len(ops) |-> ops[p[i]]] : p \in Permutations(1..Len(ops))}

InsertOps == {"insert", "insert_nand", "insert_nor"}

\* only insertions, and no two of them put the same kind into the same group
DistinctKindInserts(ops) ==
    /\ \A i \in 1..Len(ops) : ops[i].op \in InsertOps
    /\ \A i, j \in 1..Len(ops) :
         (i # j /\ ops[i].op = ops[j].op)
            => Discriminant(ops[i].filter) # Discriminant(ops[j].filter)

\* the chain made exactly one call of op and otherwise only insert calls
OnlySpecialInsert(op) ==
    /\ Cardinality({i \in 1..Len(log) : log[i].op = op}) = 1
    /\ \A i \in 1..Len(log) : log[i].op \in {"insert", op}

TheFilterOf(op) == log[CHOOSE i \in 1..Len(log) : log[i].op = op].filter

\* merge_normals_test (types.rs:289-304)
TestA == insert(new, IsSecured(TRUE))
TestB == insert(insert(new, CanBeFull(TRUE)), IsSecured(FALSE))
TestComposed == insert(insert(new, IsSecured(FALSE)), CanBeFull(TRUE))

----------------------------------------------------------------------------
(* Properties *)

\* C1: after any chain of insert / insert_nand / insert_nor / merge_* calls
\* from new(), each of the three groups holds at most one filter per kind,
\* and right after insert(f) the normal group holds exactly f under f's kind.
C1_LastWriteWinsPerKind ==
    /\ AtMostOnePerKind(sf.filters)
    /\ AtMostOnePerKind(sf.nand_filters)
    /\ AtMostOnePerKind(sf.nor_filters)
    /\ (log # <<>> /\ Last(log).op = "insert")
          => Lookup(sf.filters, Discriminant(Last(log).filter)) = {Last(log).filter}

\* C1 witness: two inserts of the same kind with different payloads; the
\* second one is the only filter of that kind left.
C1_Witness ==
    /\ Len(log) = 2
    /\ log[1].op = "insert" /\ log[1].filter = IsSecured(TRUE)
    /\ log[2].op = "insert" /\ log[2].filter = IsSecured(FALSE)
    /\ Lookup(sf.filters, "IsSecured") = {IsSecured(FALSE)}

\* C2: every merge_* is a right-biased per-kind union on the groups it
\* merges (other's filter wins, self's other kinds are kept) and leaves the
\* remaining groups as they were; merge_all does so on all three groups, and
\* the merge_normals_test scenario yields the composed value.
C2_MergeRightBiased ==
    log # <<>> =>
        LET l == Last(log)
            o == l.others
        IN  /\ l.op = "merge_normals" =>
                /\ RightBiased(prev.filters, o.filters, sf.filters)
                /\ sf.nand_filters = prev.nand_filters
                /\ sf.nor_filters = prev.nor_filters
            /\ l.op = "merge_nands" =>
                /\ RightBiased(prev.nand_filters, o.nand_filters, sf.nand_filters)
                /\ sf.filters = prev.filters
                /\ sf.nor_filters = prev.nor_filters
            /\ l.op = "merge_nors" =>
                /\ RightBiased(prev.nor_filters, o.nor_filters, sf.nor_filters)
                /\ sf.filters = prev.filters
                /\ sf.nand_filters = prev.nand_filters
            /\ l.op = "merge_all" =>
                /\ RightBiased(prev.filters, o.filters, sf.filters)
                /\ RightBiased(prev.nand_filters, o.nand_filters, sf.nand_filters)
                /\ RightBiased(prev.nor_filters, o.nor_filters, sf.nor_filters)
            /\ (l.op = "merge_all" /\ prev = TestA /\ o = TestB) => sf = TestComposed

\* C2 witness: the merge_normals_test scenario, where both sides hold
\* IsSecured and the argument's IsSecured(false) wins.
C2_Witness ==
    /\ Len(log) = 2
    /\ Last(log).op = "merge_all"
    /\ prev = TestA
    /\ Last(log).others = TestB
    /\ Lookup(sf.filters, "IsSecured") = {IsSecured(FALSE)}
    /\ Lookup(sf.filters, "CanBeFull") = {CanBeFull(TRUE)}

\* C3: for a value built from new() with exactly one insert_nand(f) and no
\* insert_nor, to_bytes() contains "nand1" followed by f's encoding and does
\* not contain "nor"; symmetrically for insert_nor with "nor1" and "nand".
C3_SpecialInsertPlacement ==
    encoded.valid =>
        /\ OnlySpecialInsert("insert_nand") =>
            /\ Contains(encoded.bytes,
                        NandName \o <<49>> \o Filter_to_bytes(TheFilterOf("insert_nand")))
            /\ ~Contains(encoded.bytes, NorName)
        /\ OnlySpecialInsert("insert_nor") =>
            /\ Contains(encoded.bytes,
                        NorName \o <<49>> \o Filter_to_bytes(TheFilterOf("insert_nor")))
            /\ ~Contains(encoded.bytes, NandName)

\* C4: to_bytes() ends with exactly one 0x00 byte appended after all group
\* output (the output is the group output plus one byte, and that byte is
\* 0x00), and on a value nothing was inserted or merged into it is exactly
\* <<0x00>>.
C4_NullTerminator ==
    encoded.valid =>
        LET b == encoded.bytes
        IN  /\ Len(b) >= 1
            /\ b[Len(b)] = 0
            /\ Len(b) = FragLen(sf.filters) + SectionLen(NandName, sf.nand_filters)
                            + SectionLen(NorName, sf.nor_filters) + 1
            /\ log = <<>> => b = <<0>>

\* C4 witness: to_bytes() of a value with a non-empty normal group; the
\* terminator follows the group output.
C4_Witness ==
    /\ encoded.valid
    /\ sf.filters # {}
    /\ Len(encoded.bytes) > 1
    /\ Last(encoded.bytes) = 0

\* C5: to_bytes() emits the normal fragments, then the nand section, then
\* the nor section, then 0x00; the nand (nor) section is present iff the nand
\* (nor) group is non-empty, whatever the other group holds.
C5_SectionOrder ==
    encoded.valid =>
        LET b == encoded.bytes
            iNand == IndexOf(b, NandName)
            iNor == IndexOf(b, NorName)
            normalLen == FragLen(sf.filters)
            nandLen == SectionLen(NandName, sf.nand_filters)
            norLen == SectionLen(NorName, sf.nor_filters)
        IN  /\ (iNand # 0) <=> (sf.nand_filters # {})
            /\ (iNor # 0) <=> (sf.nor_filters # {})
            /\ SubSeq(b, 1, normalLen)
                  \in {ExtendFilters(<<>>, o) : o \in Orders(sf.filters)}
            /\ iNand # 0 =>
                /\ iNand = normalLen + 1
                /\ SubSeq(b, iNand, iNand + nandLen - 1)
                      \in {NandName \o to_string(Cardinality(sf.nand_filters))
                              \o ExtendFilters(<<>>, o) : o \in Orders(sf.nand_filters)}
            /\ iNor # 0 =>
                /\ iNor = normalLen + nandLen + 1
                /\ SubSeq(b, iNor, iNor + norLen - 1)
                      \in {NorName \o to_string(Cardinality(sf.nor_filters))
                              \o ExtendFilters(<<>>, o) : o \in Orders(sf.nor_filters)}
            /\ Len(b) = normalLen + nandLen + norLen + 1
            /\ b[Len(b)] = 0

\* C5 witness: all three groups are non-empty and both sections are there,
\* nand before nor.
C5_Witness ==
    /\ encoded.valid
    /\ sf.filters # {} /\ sf.nand_filters # {} /\ sf.nor_filters # {}
    /\ IndexOf(encoded.bytes, NandName) > 1
    /\ IndexOf(encoded.bytes, NandName) < IndexOf(encoded.bytes, NorName)

\* C6: Filter::HasTags(tags).to_bytes() is empty when tags is empty, else it
\* is "\gametype\" followed by the tags joined by single commas (n tags give
\* n-1 separators, none trailing); a boolean filter's payload is the ASCII
\* byte '1' or '0'.
C6_FilterEncoding ==
    frag.valid =>
        LET f == frag.filter
            b == frag.bytes
        IN  /\ (f.kind = "HasTags" /\ f.tags = <<>>) => b = <<>>
            /\ (f.kind = "HasTags" /\ f.tags # <<>>) =>
                /\ b = KeyLiteral("HasTags") \o Join(f.tags)
                /\ Len(b) = Len(KeyLiteral("HasTags")) + SumLen(f.tags) + Len(f.tags) - 1
                /\ Last(f.tags) # <<>> => Last(b) # 44
            /\ f.kind \in BoolKinds =>
                /\ b = KeyLiteral(f.kind) \o <<IF f.b THEN 49 ELSE 48>>
                /\ Last(b) \in {48, 49}

\* C6 witness: HasTags(["a", "b"]) encoded as "\gametype\a,b".
C6_Witness ==
    /\ frag.valid
    /\ frag.filter = HasTags(<<TagA, TagB>>)
    /\ frag.bytes = <<92, 103, 97, 109, 101, 116, 121, 112, 101, 92, 97, 44, 98>>

\* C7: the Valve, Minecraft, Gamespy and Quake codecs get the endpoint
\* (address, p), p being the caller's port when given and game.default_port
\* otherwise; the Proprietary codecs get the caller's address and optional
\* port as given.
C7_EndpointPassed ==
    ret.returned =>
        \A i \in 1..Len(invoked) :
            LET target == invoked[i].target
                game == call.game
            IN  /\ game.protocol.family \in {"Valve", "Minecraft", "Gamespy", "Quake"} =>
                    /\ target.resolved
                    /\ target.ip = call.address
                    /\ target.port =
                          IF call.port.some THEN call.port.v ELSE game.default_port
                /\ (game.protocol.family = "Valve" /\ game.default_port = 27015
                        /\ ~call.port.some) => target.port = 27015
                /\ game.protocol.family = "PROPRIETARY" =>
                    /\ ~target.resolved
                    /\ target.ip = call.address
                    /\ target.opt_port = call.port

\* C7 witness: a Valve game with default_port 27015 queried without a port.
C7_Witness ==
    /\ ret.returned
    /\ call.game.protocol.family = "Valve"
    /\ call.game.default_port = 27015
    /\ ~call.port.some
    /\ Len(invoked) = 1
    /\ invoked[1].target.port = 27015

\* the codec each protocol selector stands for
CodecOf(protocol) ==
    CASE protocol.family = "Valve" -> "valve::query"
      [] protocol.family = "Minecraft" /\ protocol.variant = "None" -> "minecraft::query"
      [] protocol.family = "Minecraft" /\ protocol.variant = "Java" -> "minecraft::query_java"
      [] protocol.family = "Minecraft" /\ protocol.variant = "Bedrock" -> "minecraft::query_bedrock"
      [] protocol.family = "Minecraft" /\ protocol.variant = "Legacy" -> "minecraft::query_legacy_specific"
      [] protocol.family = "Gamespy" /\ protocol.variant = "One" -> "gamespy::one::query"
      [] protocol.family = "Gamespy" /\ protocol.variant = "Two" -> "gamespy::two::query"
      [] protocol.family = "Gamespy" /\ protocol.variant = "Three" -> "gamespy::three::query"
      [] protocol.family = "Quake" /\ protocol.variant = "One" -> "quake::one::query"
      [] protocol.family = "Quake" /\ protocol.variant = "Two" -> "quake::two::query"
      [] protocol.family = "Quake" /\ protocol.variant = "Three" -> "quake::three::query"
      [] protocol.family = "PROPRIETARY" /\ protocol.variant = "TheShip" -> "ship::query_with_timeout"
      [] protocol.family = "PROPRIETARY" /\ protocol.variant = "FFOW" -> "ffow::query_with_timeout"
      [] protocol.family = "PROPRIETARY" /\ protocol.variant = "JC2MP" -> "jc2mp::query_with_timeout"

SpecificMinecraftCodecs ==
    {"minecraft::query_java", "minecraft::query_bedrock",
     "minecraft::query_legacy_specific"}

\* C8: a dispatcher call invokes exactly one codec, the one game.protocol
\* stands for; Minecraft(None) invokes the auto-detecting codec and none of
\* the Java, Bedrock or Legacy codecs, and a Legacy(g) call passes g.
C8_ExactlyOneCodec ==
    ret.returned =>
        LET protocol == call.game.protocol
        IN  /\ Len(invoked) = 1
            /\ invoked[1].codec = CodecOf(protocol)
            /\ (protocol.family = "Minecraft" /\ protocol.variant = "None") =>
                \A i \in 1..Len(invoked) :
                    invoked[i].codec \notin SpecificMinecraftCodecs
            /\ (protocol.family = "Minecraft" /\ protocol.variant = "Legacy") =>
                invoked[1].param = protocol.group

\* C8 witness: a Minecraft(None) game answered by the auto-detecting codec.
C8_Witness ==
    /\ ret.returned
    /\ call.game.protocol.family = "Minecraft"
    /\ call.game.protocol.variant = "None"
    /\ Len(invoked) = 1
    /\ invoked[1].codec = "minecraft::query"

\* C9: the dispatcher invokes the codec once; it returns the codec's error
\* as it is, returns an error only when the codec did, and on success
\* returns the codec's response boxed.
C9_ErrorsForwarded ==
    ret.returned =>
        /\ Len(invoked) = 1
        /\ ~codecResult.ok => (~ret.ok /\ ret.error = codecResult.error)
        /\ ~ret.ok => ~codecResult.ok
        /\ codecResult.ok => (ret.ok /\ ret.boxed = codecResult.response)

\* C9 witness: the codec failed with SocketConnect and so did the call.
C9_Witness ==
    /\ ret.returned
    /\ ~codecResult.ok
    /\ codecResult.error = "SocketConnect"
    /\ ~ret.ok
    /\ ret.error = "SocketConnect"

\* C10: insertions of pairwise distinct kinds (per group) yield the same
\* SearchFilters value in whatever order they are made, and what to_bytes()
\* emits depends on the value only: the bag of fragments, the nand and nor
\* counts and the length are the same for every iteration order.
C10_OrderIndependent ==
    /\ DistinctKindInserts(log) => \A ops \in Reorderings(log) : Replay(new, ops) = sf
    /\ encoded.valid =>
        LET b == encoded.bytes
            iNand == IndexOf(b, NandName)
            iNor == IndexOf(b, NorName)
        IN  /\ FragBagOfSeq(encoded.values) = FragBagOfMap(sf.filters)
            /\ FragBagOfSeq(encoded.nandValues) = FragBagOfMap(sf.nand_filters)
            /\ FragBagOfSeq(encoded.norValues) = FragBagOfMap(sf.nor_filters)
            /\ iNand # 0 =>
                OccursAt(b, to_string(Cardinality(sf.nand_filters)), iNand + Len(NandName))
            /\ iNor # 0 =>
                OccursAt(b, to_string(Cardinality(sf.nor_filters)), iNor + Len(NorName))
            /\ Len(b) = FragLen(sf.filters) + SectionLen(NandName, sf.nand_filters)
                            + SectionLen(NorName, sf.nor_filters) + 1

\* C10 witness: two insertions of different kinds, serialized; making them
\* in the other order gives the same value.
C10_Witness ==
    /\ encoded.valid
    /\ Len(log) = 2
    /\ log[1].op = "insert" /\ log[2].op = "insert"
    /\ Discriminant(log[1].filter) # Discriminant(log[2].filter)
    /\ Len(encoded.values) = 2
    /\ Replay(new, <<log[2], log[1]>>) = sf

----------------------------------------------------------------------------
(* Reading a section back from the output bytes *)

IsDigit(byte) == byte >= 48 /\ byte <= 57

\* the decimal number written in bytes from position i on
RECURSIVE ParseDecimal(_, _, _)
ParseDecimal(bytes, i, acc) ==
    IF i <= Len(bytes) /\ IsDigit(bytes[i])
    THEN ParseDecimal(bytes, i + 1, 10 * acc + (bytes[i] - 48))
    ELSE acc

\* number of backslashes in bytes[from..to]
Backslashes(bytes, from, to) ==
    Cardinality({i \in from..to : bytes[i] = 92})

\* number of "\key\value" fragments in bytes[from..to]: a fragment holds
\* exactly two backslashes (no payload of FilterInputs holds one)
FragmentsIn(bytes, from, to) == Backslashes(bytes, from, to) \div 2

\* the count written after the section literal found at position at
SectionCount(bytes, name, at) == ParseDecimal(bytes, at + Len(name), 0)

\* C11: in every emitted "nand<count>" or "nor<count>" section of
\* to_bytes(), the decimal count equals the number of "\key\value"
\* fragments that follow it in that section, whatever the group holds,
\* Filter::HasTags with an empty tag list included.
C11_CountMatchesFragments ==
    encoded.valid =>
        LET b == encoded.bytes
            iNand == IndexOf(b, NandName)
            iNor == IndexOf(b, NorName)
            nandEnd == IF iNor # 0 THEN iNor - 1 ELSE Len(b) - 1
        IN  /\ iNand # 0 =>
                SectionCount(b, NandName, iNand) = FragmentsIn(b, iNand, nandEnd)
            /\ iNor # 0 =>
                SectionCount(b, NorName, iNor) = FragmentsIn(b, iNor, Len(b) - 1)

=============================================================================
